---- MODULE Spec2Model ----
(***************************************************************************)
(* nefertari_es/meta.py: the document registry, the three metaclass        *)
(* mixins composed by DocTypeMeta, and create_index.                       *)
(*                                                                         *)
(* Objects are modelled by identity: a Field object is an index into       *)
(* `heap`, a class object an index into `classes`, a dict object an index  *)
(* into `dicts` (dicts[1] is the module global _document_registry).        *)
(***************************************************************************)
EXTENDS Integers, Sequences, FiniteSets, TLC

VARIABLES heap, classes, dicts, held, last

vars == <<heap, classes, dicts, held, last>>

\* ------------------------------------------------------------- bounds
MaxClasses == 2
MaxBases == 2
MaxFields == 7

\* ------------------------------------------------------------- inputs
ClassNames == {"A", "B"}
PipelineNames == {"A"}
FieldNames == {"f", "g"}
FieldOrder == <<"f", "g">>
NoName == ""

\* keyword options a Relationship(..., backref_kwargs=...) may be given
BackrefKwargsChoices ==
    { <<>>,
      [name |-> "f"],
      [name |-> "g", uselist |-> TRUE, nested |-> FALSE],
      [uselist |-> TRUE] }

\* ------------------------------------------------------------ helpers
Put(d, k, v) == [x \in (DOMAIN d) \cup {k} |-> IF x = k THEN v ELSE d[x]]

Update(d, e) == [x \in (DOMAIN d) \cup (DOMAIN e) |->
                    IF x \in DOMAIN e THEN e[x] ELSE d[x]]

Pop(d, k) == [x \in (DOMAIN d) \ {k} |-> d[x]]

SetDefault(d, k, v) == IF k \in DOMAIN d THEN d ELSE Put(d, k, v)

Range(s) == {s[i] : i \in DOMAIN s}

Perms(S) == {p \in [1..Cardinality(S) -> S] :
                \A i, j \in 1..Cardinality(S) : p[i] = p[j] => i = j}

\* ------------------------------------------------------ Field objects
PlainField == [rel |-> FALSE, doc_class |-> 0, document |-> NoName,
               backref_kwargs |-> <<>>, options |-> <<>>,
               back_populates |-> NoName]

\* a Relationship field declared by the user: resolved target class t
RelField(t, doc, kw) ==
    [rel |-> TRUE, doc_class |-> t, document |-> doc,
     backref_kwargs |-> kw, options |-> <<>>, back_populates |-> NoName]

\* Non-document bases (plain classes that declare Field attributes in
\* their own __dict__).  Their Field objects are heap cells 1..3.
MixinIds == {1, 2}
\* (value 0 is an attribute that is not a Field instance)
MixinDict(m) == IF m = 1 THEN [f |-> 1, g |-> 0] ELSE [f |-> 2, g |-> 3]
MixinHeap == <<PlainField, PlainField, PlainField>>

\* ----------------------------------------------------------- registry
Registry == dicts[1]

\* get_document_cls: _document_registry[name]; 0 stands for KeyError
get_document_cls(reg, name) == IF name \in DOMAIN reg THEN reg[name] ELSE 0

\* faulty variant: the registry itself is handed out instead of a copy
get_document_classes_alias(ds) == [dicts |-> ds, ret |-> 1]

\* get_document_classes: _document_registry.copy(); a new dict object is
\* allocated in slot 2 and its identity returned
get_document_classes(ds) == [dicts |-> <<ds[1], ds[1]>>, ret |-> 2]

\* ------------------------------------------- NonDocumentInheritanceMixin
IsDocBase(b) == b.kind = "doc"

\* base._doc_type.mapping.to_dict(): field name -> serialised field
ToDict(mapping, hp) ==
    [n \in DOMAIN mapping |->
        [type |-> IF hp[mapping[n]].rel THEN "object" ELSE "field"]]

\* the Field-typed entries of a plain base's own __dict__
OwnFields(m) == [k \in {k \in DOMAIN MixinDict(m) : MixinDict(m)[k] # 0}
                    |-> MixinDict(m)[k]]

\* faulty variant: the first base that declares a name keeps it
RECURSIVE NondocFieldsFirstWins(_, _)
NondocFieldsFirstWins(bases, i) ==
    IF i = 0 THEN <<>>
    ELSE IF bases[i].kind = "doc" THEN NondocFieldsFirstWins(bases, i - 1)
    ELSE Update(OwnFields(bases[i].id), NondocFieldsFirstWins(bases, i - 1))

RECURSIVE NondocFields(_, _)
NondocFields(bases, i) ==
    IF i = 0 THEN <<>>
    ELSE IF IsDocBase(bases[i]) THEN NondocFields(bases, i - 1)
    ELSE Update(NondocFields(bases, i - 1), OwnFields(bases[i].id))

RECURSIVE BaseDocsFields(_, _, _, _)
BaseDocsFields(bases, i, cls, hp) ==
    IF i = 0 THEN <<>>
    ELSE IF IsDocBase(bases[i])
         THEN Update(BaseDocsFields(bases, i - 1, cls, hp),
                     ToDict(cls[bases[i].id].mapping, hp))
         ELSE BaseDocsFields(bases, i - 1, cls, hp)

\* faulty variant: the test against the document bases' mappings is left out
InheritAttrsNoDocCheck(attrs, nondoc_fields, base_docs_fields) ==
    Update(attrs,
           [n \in {k \in DOMAIN nondoc_fields : k \notin DOMAIN attrs}
               |-> nondoc_fields[n]])

\* the second loop: attrs[name] = field for the candidates that pass
InheritAttrs(attrs, nondoc_fields, base_docs_fields) ==
    Update(attrs,
           [n \in {k \in DOMAIN nondoc_fields :
                      k \notin DOMAIN attrs /\ k \notin DOMAIN base_docs_fields}
               |-> nondoc_fields[n]])

\* `for name, field in nondoc_fields.items()` rebinds the parameter
\* `name`: after the loop it is the key iterated last (any key: dict
\* order), and that is what is passed on to super().__new__
NameAfterLoop(name, nondoc_fields, lastKey) ==
    IF DOMAIN nondoc_fields = {} THEN name ELSE lastKey

\* --------------------------------------------------- mapping foundation
\* ESDocTypeMeta: the mapping holds the Field-typed attrs, then every
\* document base's mapping is merged in without replacing a name
RECURSIVE MergeBases(_, _, _, _)
MergeBases(mapping, bases, i, cls) ==
    IF i > Len(bases) THEN mapping
    ELSE IF IsDocBase(bases[i])
         THEN MergeBases(Update(cls[bases[i].id].mapping, mapping),
                         bases, i + 1, cls)
         ELSE MergeBases(mapping, bases, i + 1, cls)

Foundation(name, bases, attrs, cls) ==
    [name |-> name,
     mapping |-> MergeBases([n \in {k \in DOMAIN attrs : attrs[k] # 0}
                                |-> attrs[n]], bases, 1, cls),
     ancestors |-> UNION {{bases[i].id} \cup cls[bases[i].id].ancestors :
                             i \in {j \in DOMAIN bases : IsDocBase(bases[j])}},
     done |-> FALSE]

\* new_class._relationships(): names of the relationship fields
Relationships(c, hp) == {n \in DOMAIN c.mapping : hp[c.mapping[n]].rel}

\* ------------------------------------------- BackrefGeneratingDocMixin
\* Relationship(new_class.__name__, **backref_kwargs), _back_populates set
BackrefField(clsname, kw, n) ==
    [rel |-> TRUE, doc_class |-> 0, document |-> clsname,
     backref_kwargs |-> <<>>, options |-> kw, back_populates |-> n]

\* faulty variant: no `continue` for a field without a request: the inverse is
\* synthesized under the originating field's own name
BackrefStepNoSkip(st, c, n) ==
    LET fid == st.classes[c].mapping[n]
        field == st.heap[fid]
        kw == field.backref_kwargs
        target == field.doc_class
        field_name == IF "name" \in DOMAIN kw THEN kw.name ELSE n
        kwargs == SetDefault(Pop(kw, "name"), "uselist", FALSE)
        bid == Len(st.heap) + 1
        hp1 == Append(st.heap, BackrefField(st.classes[c].name, kwargs, n))
    IN  [st EXCEPT !.heap = [hp1 EXCEPT ![fid].back_populates = field_name],
                   !.classes = [st.classes EXCEPT ![target].mapping =
                                   Put(@, field_name, bid)]]

\* faulty variant: the setdefault('uselist', False) line is missing
BackrefStepNoDefault(st, c, n) ==
    LET fid == st.classes[c].mapping[n]
        field == st.heap[fid]
        kw == field.backref_kwargs
    IN  IF DOMAIN kw = {} THEN st
        ELSE IF "name" \notin DOMAIN kw THEN [st EXCEPT !.ok = FALSE]
        ELSE LET bid == Len(st.heap) + 1
                 hp1 == Append(st.heap,
                               BackrefField(st.classes[c].name,
                                            Pop(kw, "name"), n))
             IN  [st EXCEPT !.heap = [hp1 EXCEPT ![fid].back_populates =
                                                     kw.name],
                            !.classes = [st.classes EXCEPT
                                ![field.doc_class].mapping =
                                    Put(@, kw.name, bid)]]

\* faulty variant: the originating field's own marker is never set
BackrefStepOneSided(st, c, n) ==
    LET fid == st.classes[c].mapping[n]
        field == st.heap[fid]
        kw == field.backref_kwargs
    IN  IF DOMAIN kw = {} THEN st
        ELSE IF "name" \notin DOMAIN kw THEN [st EXCEPT !.ok = FALSE]
        ELSE LET kwargs == SetDefault(Pop(kw, "name"), "uselist", FALSE)
                 bid == Len(st.heap) + 1
             IN  [st EXCEPT !.heap = Append(st.heap,
                                BackrefField(st.classes[c].name, kwargs, n)),
                            !.classes = [st.classes EXCEPT
                                ![field.doc_class].mapping =
                                    Put(@, kw.name, bid)]]

\* one iteration of the loop over the relationship names
BackrefStep(st, c, n) ==
    LET fid == st.classes[c].mapping[n]
        field == st.heap[fid]
        kw == field.backref_kwargs
    IN  IF DOMAIN kw = {} THEN st
        ELSE IF "name" \notin DOMAIN kw THEN [st EXCEPT !.ok = FALSE]
        ELSE LET target == field.doc_class
                 field_name == kw.name
                 kwargs == SetDefault(Pop(kw, "name"), "uselist", FALSE)
                 bid == Len(st.heap) + 1
                 hp1 == Append(st.heap,
                               BackrefField(st.classes[c].name, kwargs, n))
                 cl1 == [st.classes EXCEPT ![target].mapping =
                            Put(@, field_name, bid)]
             IN  [st EXCEPT !.heap = [hp1 EXCEPT ![fid].back_populates =
                                                     field_name],
                            !.classes = cl1]

RECURSIVE BackrefLoop(_, _, _, _)
BackrefLoop(st, c, order, i) ==
    IF i > Len(order) \/ ~st.ok THEN st
    ELSE BackrefLoop(BackrefStep(st, c, order[i]), c, order, i + 1)

\* --------------------------------------------------- RegisteredDocMixin
\* faulty variant: an existing entry is kept: setdefault instead of assignment
RegisterKeepFirst(reg, c, cls) == SetDefault(reg, cls[c].name, c)

Register(reg, c, cls) == Put(reg, cls[c].name, c)

\* faulty variant: the entry is written whether or not the later stages raised
RegisteredNewAlways(reg, st, c) == Register(reg, c, st.classes)

\* super().__new__ raised: line 53 is not reached
RegisteredNew(reg, st, c) ==
    IF st.ok THEN Register(reg, c, st.classes) ELSE reg

\* ------------------------------------------------- a class declaration
Done(cls) == {c \in DOMAIN cls : cls[c].done}

BaseRefs(cls) == [kind : {"mixin"}, id : MixinIds]
                    \cup [kind : {"doc"}, id : Done(cls)]

\* base lists Python accepts: no base twice, no document class listed
\* before one of its own subclasses
BaseLists(cls) ==
    {bs \in UNION {[1..k -> BaseRefs(cls)] : k \in 0..MaxBases} :
        /\ \A i, j \in DOMAIN bs : bs[i] = bs[j] => i = j
        /\ \A i, j \in DOMAIN bs :
              (i < j /\ IsDocBase(bs[i]) /\ IsDocBase(bs[j]))
                  => bs[i].id \notin cls[bs[j].id].ancestors}

\* what a class body may bind a field name to
AttrSpecs(cls) ==
    [kind : {"other", "plain"}, target : {0}, kw : {<<>>}]
        \cup [kind : {"rel"}, target : Done(cls), kw : BackrefKwargsChoices]

AttrChoices(cls) ==
    UNION {[S -> AttrSpecs(cls)] : S \in SUBSET FieldNames}

\* the class body runs first: it creates the Field objects of attrs
RECURSIVE ClassBody(_, _, _, _, _)
ClassBody(hp, attrs, spec, cls, i) ==
    IF i > Len(FieldOrder) THEN [heap |-> hp, attrs |-> attrs]
    ELSE LET n == FieldOrder[i]
         IN  IF n \notin DOMAIN spec
                 THEN ClassBody(hp, attrs, spec, cls, i + 1)
             ELSE IF spec[n].kind = "other"
                 THEN ClassBody(hp, Put(attrs, n, 0), spec, cls, i + 1)
             ELSE LET fld == IF spec[n].kind = "plain" THEN PlainField
                             ELSE RelField(spec[n].target,
                                           cls[spec[n].target].name,
                                           spec[n].kw)
                  IN  ClassBody(Append(hp, fld), Put(attrs, n, Len(hp) + 1),
                                spec, cls, i + 1)

\* DocTypeMeta(name, bases, attrs): the three mixins around the foundation
Declare(name, bases, spec) ==
    /\ Len(classes) < MaxClasses
    /\ LET body == ClassBody(heap, <<>>, spec, classes, 1)
           nondoc_fields == NondocFields(bases, Len(bases))
           base_docs_fields ==
               BaseDocsFields(bases, Len(bases), classes, body.heap)
           attrs == InheritAttrs(body.attrs, nondoc_fields, base_docs_fields)
           c == Len(classes) + 1
       IN  \E lastKey \in IF DOMAIN nondoc_fields = {} THEN {NoName}
                          ELSE DOMAIN nondoc_fields :
           LET clsname == NameAfterLoop(name, nondoc_fields, lastKey)
               cls1 == Append(classes,
                              Foundation(clsname, bases, attrs, classes))
           IN  \E order \in Perms(Relationships(cls1[c], body.heap)) :
               LET st == BackrefLoop([heap |-> body.heap, classes |-> cls1,
                                      ok |-> TRUE], c, order, 1)
               IN  /\ Len(st.heap) <= MaxFields
                   /\ heap' = st.heap
                   /\ classes' = [st.classes EXCEPT ![c].done = st.ok]
                   /\ dicts' = [dicts EXCEPT ![1] = RegisteredNew(@, st, c)]
                   /\ last' = [op |-> "declare", name |-> name,
                               bases |-> bases, attrs |-> body.attrs,
                               new_attrs |-> attrs,
                               candidates |-> nondoc_fields, order |-> order,
                               cls |-> c, ok |-> st.ok,
                               heap0 |-> Len(heap)]
    /\ UNCHANGED held

\* --------------------------------------------------- registry lookups
Get(name) ==
    /\ last' = [op |-> "get", name |-> name,
                result |-> get_document_cls(Registry, name)]
    /\ UNCHANGED <<heap, classes, dicts, held>>

\* a caller keeps the mapping get_document_classes() returned
ListAll ==
    LET r == get_document_classes(dicts)
    IN  /\ dicts' = r.dicts
        /\ held' = r.ret
        /\ last' = [op |-> "list"]
        /\ UNCHANGED <<heap, classes>>

\* ... and later adds, replaces or removes an entry of it
MutateHeld(k, v) ==
    /\ held # 0
    /\ dicts' = [dicts EXCEPT ![held] =
                    IF v = 0 THEN Pop(@, k) ELSE Put(@, k, v)]
    /\ dicts'[held] # dicts[held]
    /\ last' = [op |-> "mutate", name |-> k, value |-> v]
    /\ UNCHANGED <<heap, classes, held>>

\* ---------------------------------------------------------- create_index
\* faulty variant: create() is requested before the classes are associated
IndexCallsCreateFirst(doc_classes) ==
    <<[call |-> "create", cls |-> 0]>>
        \o [i \in 1..Len(doc_classes) |->
               [call |-> "doc_type", cls |-> doc_classes[i]]]

\* the calls made on the Index object, in order
IndexCalls(doc_classes) ==
    [i \in 1..Len(doc_classes) |-> [call |-> "doc_type", cls |-> doc_classes[i]]]
        \o <<[call |-> "create", cls |-> 0]>>

\* dict.values() of a mapping, in the order `order` of its keys
Values(d, order) == [i \in 1..Len(order) |-> d[order[i]]]

\* arg.given = FALSE stands for doc_classes=None
create_index(arg) ==
    /\ \E order \in Perms(DOMAIN Registry) :
         LET r == get_document_classes(dicts)
             doc_classes == IF arg.given THEN arg.list
                            ELSE Values(r.dicts[r.ret], order)
         IN  last' = [op |-> "create_index", arg |-> arg,
                      calls |-> IndexCalls(doc_classes)]
    /\ UNCHANGED <<heap, classes, dicts, held>>

DocClassArgs == {[given |-> FALSE, list |-> <<>>]}
                   \cup [given : {TRUE},
                         list : {<<>>} \cup {<<c>> : c \in Done(classes)}]

Init ==
    /\ heap = MixinHeap
    /\ classes = <<>>
    /\ dicts = <<(<<>>)>>
    /\ held = 0
    /\ last = [op |-> "init"]

Next ==
    /\ Len(classes) < MaxClasses
    /\ \E name \in PipelineNames : \E bases \in BaseLists(classes) :
          \E spec \in AttrChoices(classes) : Declare(name, bases, spec)

Spec == Init /\ [][Next]_vars

\* the registry's callers: plain declarations, lookups, listings, indexes
RegistryNames == ClassNames \cup FieldNames \cup {"DoesNotExist"}

NextRegistry ==
    \/ /\ Len(classes) < MaxClasses
       /\ \E name \in ClassNames :
            \E bases \in {<<>>, <<[kind |-> "mixin", id |-> 2]>>} :
              Declare(name, bases, <<>>)
    \/ \E name \in RegistryNames : Get(name)
    \/ ListAll
    \/ \E k \in ClassNames : \E v \in 0..Len(classes) : MutateHeld(k, v)
    \/ \E arg \in DocClassArgs : create_index(arg)

SpecRegistry == Init /\ [][NextRegistry]_vars

\* =================================================================
\* Properties
\* =================================================================
FnRange(d) == {d[k] : k \in DOMAIN d}

NewClass == classes[last.cls]

\* C1 (as stated): the registry entry is written before the other stages,
\* so a declaration whose backref stage raises part-way still leaves the
\* class in the registry, and get(name) returns it.
C1_RegisteredDespiteFailure ==
    (last.op = "declare" /\ ~last.ok)
        => get_document_cls(Registry, NewClass.name) = last.cls

\* C1 (amended): the registry entry is written last, after inheritance
\* merge, foundation and backref synthesis have all completed: a completed
\* declaration is found under its class name, a declaration whose backref
\* stage raised is in the registry under no name at all.
C1_RegisteredLast ==
    last.op = "declare" =>
        IF last.ok
        THEN get_document_cls(Registry, NewClass.name) = last.cls
        ELSE last.cls \notin FnRange(Registry)

\* a declaration that raised after one backref had already been injected
C1_Witness ==
    /\ last.op = "declare" /\ ~last.ok
    /\ \E i \in DOMAIN heap :
          /\ heap[i].rel /\ heap[i].doc_class = 0
          /\ heap[i].document = NewClass.name
          /\ \E t \in DOMAIN classes : t # last.cls
                /\ i \in FnRange(classes[t].mapping)

\* C8: a class declared with name N is named N and registered under N,
\* whatever its bases are (non-document bases with fields included).
C8_NamedAndRegisteredAsDeclared ==
    (last.op = "declare" /\ last.ok) =>
        /\ NewClass.name = last.name
        /\ get_document_cls(Registry, last.name) = last.cls

\* the class most recently registered under n (0: none ever was)
LastRegistered(n) ==
    LET S == {c \in DOMAIN classes : classes[c].done /\ classes[c].name = n}
    IN  IF S = {} THEN 0 ELSE CHOOSE c \in S : \A d \in S : d <= c

\* C5: get(n) returns the class most recently registered under n (a later
\* registration replaces the earlier one), KeyError (0) when none ever was,
\* and a lookup leaves the registry as it is.
C5_GetReturnsLatest ==
    /\ [](last.op = "get" => last.result = LastRegistered(last.name))
    /\ [][last'.op = "get" => Registry' = Registry]_vars

\* a lookup of a name under which an earlier class was replaced
C5_Witness ==
    /\ last.op = "get" /\ last.result # 0
    /\ \E c \in DOMAIN classes :
          c < last.result /\ classes[c].done /\ classes[c].name = last.name

\* C6: create_index without a class list associates exactly the classes in
\* the registry at the call, then requests creation once, as the last call.
C6_DefaultIndexScope ==
    (last.op = "create_index" /\ ~last.arg.given) =>
        LET calls == last.calls
            n == Len(calls)
        IN  /\ n = Cardinality(DOMAIN Registry) + 1
            /\ calls[n].call = "create"
            /\ \A i \in 1..(n - 1) : calls[i].call = "doc_type"
            /\ {calls[i].cls : i \in 1..(n - 1)} = FnRange(Registry)

C6_Witness ==
    /\ last.op = "create_index" /\ ~last.arg.given
    /\ Cardinality(FnRange(Registry)) >= 2

\* C7: the mapping listAll() returned is a snapshot: the caller's changes
\* to it never reach the registry, and a declaration made after the call
\* never shows up in it.
C7_ListAllSnapshot ==
    [][held # 0 =>
          /\ last'.op = "mutate" => Registry' = Registry
          /\ last'.op = "declare" => dicts'[held] = dicts[held]]_vars

\* a held mapping edited by the caller, then outdated by a declaration
C7_Witness ==
    /\ held # 0 /\ last.op = "declare" /\ last.ok
    /\ NewClass.name \notin DOMAIN dicts[held]
    /\ \E k \in DOMAIN dicts[held] : k \notin DOMAIN Registry

\* ------------------------------------------------- field inheritance
\* the positions of the non-document bases that declare Field n
Declaring(l, n) ==
    {i \in DOMAIN l.bases :
        /\ l.bases[i].kind = "mixin"
        /\ n \in DOMAIN MixinDict(l.bases[i].id)
        /\ MixinDict(l.bases[i].id)[n] # 0}

\* the positions of the document bases whose mapping (in cls) holds n
Covering(l, n, cls) ==
    {i \in DOMAIN l.bases :
        /\ l.bases[i].kind = "doc"
        /\ n \in DOMAIN cls[l.bases[i].id].mapping}

InheritanceRule(l, before, after) ==
    \A n \in FieldNames :
        LET added == n \in DOMAIN l.new_attrs /\ n \notin DOMAIN l.attrs
            own == n \in DOMAIN l.attrs /\ l.attrs[n] # 0
            cover == Covering(l, n, before)
        IN  /\ added <=> /\ Declaring(l, n) # {}
                         /\ n \notin DOMAIN l.attrs
                         /\ cover = {}
            /\ added => l.new_attrs[n] \in
                          {MixinDict(l.bases[i].id)[n] : i \in Declaring(l, n)}
            /\ n \in DOMAIN l.attrs => l.new_attrs[n] = l.attrs[n]
            /\ own => after[l.cls].mapping[n] = l.attrs[n]
            /\ (cover # {} /\ ~own) =>
                  after[l.cls].mapping[n] \in
                      {before[l.bases[i].id].mapping[n] : i \in cover}

\* C3: a non-document base's field is added to the attribute set iff the
\* class declares no attribute of that name and no document base's mapping
\* holds the name, for every order of the bases; a declared field and a
\* document base's field are what the final mapping holds.
C3_InheritOnlyUncovered ==
    [][last'.op = "declare" => InheritanceRule(last', classes, classes')]_vars

\* a mixin listed before a document base that covers the mixin's field
C3_Witness ==
    /\ last.op = "declare"
    /\ \E n \in FieldNames : \E i \in Declaring(last, n) :
          \E j \in Covering(last, n, classes) :
             /\ i < j
             /\ n \notin DOMAIN last.attrs
             /\ n \notin DOMAIN last.new_attrs
             /\ NewClass.mapping[n] <= last.heap0

\* C10: when two or more non-document bases declare a field of one name,
\* the candidate kept, and inherited if nothing else provides the name, is
\* the field of the base listed last.
C10_LastBaseWins ==
    last.op = "declare" =>
        \A n \in FieldNames :
            LET I == Declaring(last, n)
                top == CHOOSE i \in I : \A j \in I : j <= i
            IN  Cardinality(I) >= 2 =>
                    /\ n \in DOMAIN last.candidates
                    /\ last.candidates[n] = MixinDict(last.bases[top].id)[n]
                    /\ (n \in DOMAIN last.new_attrs /\ n \notin DOMAIN last.attrs)
                          => last.new_attrs[n] = last.candidates[n]

\* mixin 2 listed before mixin 1, both declaring f: mixin 1's field is kept
C10_Witness ==
    /\ last.op = "declare"
    /\ last.bases = <<[kind |-> "mixin", id |-> 2], [kind |-> "mixin", id |-> 1]>>
    /\ "f" \notin DOMAIN last.attrs
    /\ NewClass.mapping["f"] = MixinDict(1)["f"]

\* ------------------------------------------------------------ backrefs
HasRequest(hp, f) == hp[f].rel /\ DOMAIN hp[f].backref_kwargs # {}

NamesInverse(hp, f) == hp[f].rel /\ "name" \in DOMAIN hp[f].backref_kwargs

\* a field object made by the backref synthesizer
IsSynthesized(hp, b) ==
    hp[b].rel /\ hp[b].doc_class = 0 /\ hp[b].document # NoName

NoRequests(cls, hp, c) ==
    \A n \in Relationships(cls[c], hp) : ~HasRequest(hp, cls[c].mapping[n])

\* C4: declaring a class none of whose relationship fields carries an
\* inverse request changes no other class's mapping and sets no
\* back-populate marker: existing fields are as before, new ones unset.
C4_NoRequestNoBackref ==
    [][(last'.op = "declare" /\ NoRequests(classes', heap', last'.cls)) =>
          /\ \A t \in DOMAIN classes : classes'[t].mapping = classes[t].mapping
          /\ \A i \in DOMAIN heap : heap'[i] = heap[i]
          /\ \A n \in Relationships(classes'[last'.cls], heap') :
                LET f == classes'[last'.cls].mapping[n]
                IN  f \notin DOMAIN heap => heap'[f].back_populates = NoName
      ]_vars

\* a completed declaration with a relationship field and no request
C4_Witness ==
    /\ last.op = "declare" /\ last.ok
    /\ NoRequests(classes, heap, last.cls)
    /\ \E n \in Relationships(NewClass, heap) :
          heap[NewClass.mapping[n]].doc_class \in DOMAIN classes

\* the options the synthesized inverse is to carry for request kw
ExpectedOptions(kw) ==
    [k \in ((DOMAIN kw) \ {"name"}) \cup {"uselist"} |->
        IF k \in DOMAIN kw THEN kw[k] ELSE FALSE]

\* cell b is the inverse synthesized for field n (request kw) of the class
\* just declared
IsInverseOf(b, n, kw) ==
    /\ b > last.heap0
    /\ heap[b].rel
    /\ heap[b].document = NewClass.name
    /\ get_document_cls(Registry, heap[b].document) = last.cls
    /\ heap[b].options = ExpectedOptions(kw)
    /\ heap[b].back_populates = n
    /\ DOMAIN heap[b].backref_kwargs = {}

\* C9: for a relationship field n of the new class C whose request names m
\* and carries options O, the target's mapping gets under m a relationship
\* field referring to C, with options O less the name, uselist as requested
\* or False, and back-populate marker n (a later field of C requesting the
\* same name on the same target replaces it).
C9_SynthesizedInverse ==
    (last.op = "declare" /\ last.ok) =>
        \A i \in DOMAIN last.order :
            LET n == last.order[i]
                f == NewClass.mapping[n]
                kw == heap[f].backref_kwargs
                T == heap[f].doc_class
                replaced ==
                    \E j \in DOMAIN last.order : j > i /\
                        LET g == NewClass.mapping[last.order[j]]
                        IN  /\ NamesInverse(heap, g)
                            /\ heap[g].doc_class = T
                            /\ heap[g].backref_kwargs.name = kw.name
            IN  NamesInverse(heap, f) =>
                    /\ \E b \in DOMAIN heap : IsInverseOf(b, n, kw)
                    /\ kw.name \in DOMAIN classes[T].mapping
                    /\ ~replaced =>
                          IsInverseOf(classes[T].mapping[kw.name], n, kw)

\* a request without uselist on a class renamed by the inheritance stage,
\* and one with uselist and a further option
C9_Witness ==
    /\ last.op = "declare" /\ last.ok
    /\ \E n \in DOMAIN NewClass.mapping :
          LET f == NewClass.mapping[n]
          IN  /\ NamesInverse(heap, f)
              /\ "uselist" \notin DOMAIN heap[f].backref_kwargs
              /\ IsInverseOf(classes[heap[f].doc_class].mapping[
                                 heap[f].backref_kwargs.name],
                             n, heap[f].backref_kwargs)
    /\ \E n \in DOMAIN NewClass.mapping :
          LET f == NewClass.mapping[n]
          IN  /\ NamesInverse(heap, f)
              /\ "nested" \in DOMAIN heap[f].backref_kwargs

\* C2 (as stated): for every relationship field n of a class, targeting T
\* with a request naming m, T's mapping holds a field m whose marker is n
\* and the field's own marker is m; and every synthesized inverse is
\* paired with an originating field whose marker names it.
C2_AlwaysSymmetric ==
    /\ \A c \in Done(classes) : \A n \in DOMAIN classes[c].mapping :
          LET f == classes[c].mapping[n]
              m == heap[f].backref_kwargs.name
              T == heap[f].doc_class
          IN  NamesInverse(heap, f) =>
                  /\ m \in DOMAIN classes[T].mapping
                  /\ heap[classes[T].mapping[m]].back_populates = n
                  /\ heap[f].back_populates = m
    /\ \A t \in DOMAIN classes : \A m \in DOMAIN classes[t].mapping :
          LET b == classes[t].mapping[m]
              n == heap[b].back_populates
          IN  IsSynthesized(heap, b) =>
                  \E c \in DOMAIN classes :
                      /\ n \in DOMAIN classes[c].mapping
                      /\ heap[classes[c].mapping[n]].back_populates = m

\* C2 (amended): the field's own marker is m and T's mapping holds under m
\* a synthesized inverse; that inverse's marker is n provided no other
\* relationship field requests the same name m on T (the inverse
\* synthesized last replaces an earlier one); and every synthesized
\* inverse stored under m has an originating field that requests m and
\* whose marker is m.
C2_SymmetricUnlessCollision ==
    /\ \A c \in Done(classes) : \A n \in DOMAIN classes[c].mapping :
          LET f == classes[c].mapping[n]
              m == heap[f].backref_kwargs.name
              T == heap[f].doc_class
              alone == \A g \in DOMAIN heap :
                          (/\ g # f
                           /\ NamesInverse(heap, g)
                           /\ heap[g].doc_class = T)
                              => heap[g].backref_kwargs.name # m
          IN  NamesInverse(heap, f) =>
                  /\ heap[f].back_populates = m
                  /\ m \in DOMAIN classes[T].mapping
                  /\ IsSynthesized(heap, classes[T].mapping[m])
                  /\ alone => heap[classes[T].mapping[m]].back_populates = n
    /\ \A t \in DOMAIN classes : \A m \in DOMAIN classes[t].mapping :
          LET b == classes[t].mapping[m]
          IN  IsSynthesized(heap, b) =>
                  \E f \in DOMAIN heap :
                      /\ NamesInverse(heap, f)
                      /\ heap[f].backref_kwargs.name = m
                      /\ heap[f].back_populates = m

\* two fields of one class requesting different names on one target: both
\* pairs are in place
C2_Witness ==
    \E c \in Done(classes) : \E n1, n2 \in DOMAIN classes[c].mapping :
        LET f1 == classes[c].mapping[n1]
            f2 == classes[c].mapping[n2]
        IN  /\ n1 # n2
            /\ NamesInverse(heap, f1) /\ NamesInverse(heap, f2)
            /\ heap[f1].doc_class = heap[f2].doc_class
            /\ heap[f1].backref_kwargs.name # heap[f2].backref_kwargs.name
            /\ heap[classes[heap[f1].doc_class].mapping[
                        heap[f1].backref_kwargs.name]].back_populates = n1
            /\ heap[classes[heap[f2].doc_class].mapping[
                        heap[f2].backref_kwargs.name]].back_populates = n2

====
